---- MODULE Spec2Model ----
(***************************************************************************)
(* Session-scoped search / summary orchestration of src/main.py:           *)
(* the orchestrator registry (orchestrators, get_orchestrator), the        *)
(* session store (sessions) and the request handlers search_papers,        *)
(* generate_summary and get_session.                                       *)
(*                                                                         *)
(* Python objects are modelled by a heap: a ResultSet returned by          *)
(* run_pipeline is an object with an identity (its index in heap), and     *)
(* sessions maps a session id to such an identity, as the dict maps a key  *)
(* to a reference.                                                         *)
(*                                                                         *)
(* The handlers are coroutines without an await, and they call their       *)
(* collaborator (run_pipeline / generate_summary) synchronously: the event *)
(* loop runs one handler from its first line to its end before it looks at *)
(* the next request.  So at most one handler is running, req, and a        *)
(* request is received only when none is.  The handler is still cut at the *)
(* collaborator call, the part before the call and the part after its      *)
(* return being one action each: what the call returns is not the          *)
(* handler's choice, and the wall clock moves while it lasts.              *)
(*                                                                         *)
(* Text is a sequence of characters.  A request abstract is given by its   *)
(* length in characters, the only thing search_papers looks at.            *)
(***************************************************************************)
EXTENDS Integers, Sequences, FiniteSets, TLC

\* ------------------------------------------------------------------ bounds
MaxTime == 1        \* wall-clock seconds 0..MaxTime
MaxPapers == 6      \* largest top_5_papers list a pipeline returns
MaxRequests == 3    \* requests received over a run

\* ------------------------------------------------------- program constants
MinAbstractLen == 50    \* len(request.abstract) < 50
MaxPaperIndex == 5      \* request.paper_index > 5
TopN == 5               \* results.get('top_5_papers', [])[:5]
TruncLen == 300         \* paper.get('abstract', '')[:300]

ValidModes == {"arxiv", "local"}
Modes == ValidModes \cup {"other"}

None == "None"          \* Python None
NoHandle == << >>       \* orchestrators[mode] is None
Absent == "Absent"      \* a key a dict does not have
EmptyDict == "{}"       \* a dict without keys: falsy like None
Raise == "raise"        \* the collaborator raised instead of returning

Min(a, b) == IF a < b THEN a ELSE b

\* ------------------------------------------------------------------ inputs
AbstractLens == {0, MinAbstractLen - 1, MinAbstractLen}
PaperIndexes == {0, 1, MaxPaperIndex, MaxPaperIndex + 1}
PaperCounts == {2, MaxPapers}
SummaryValues == {"sumA", "sumB"}

\* (faulty variant of SessionId: the second left out of the id)
SessionIdOfMode(mode, second) == <<mode, 0>>

\* f"{mode}_{datetime.now().strftime('%Y%m%d_%H%M%S')}": the mode, "_" and the
\* stamp of the wall-clock second.  Two such strings are equal exactly when
\* mode and second are, which is what the pair keeps.
SessionId(mode, second) == <<mode, second>>

NoSuchSession == <<"does-not-exist", 0>>

\* ------------------------------------------------- what the pipeline returns
Text(n) == [i \in 1..n |-> 97 + (i % 5)]
Ellipsis == <<46, 46, 46>>

\* a dict entry that may be missing: d.get(key, default) is GetOr(d.key, default)
Some(x) == [present |-> TRUE, value |-> x]
Missing == [present |-> FALSE, value |-> << >>]
GetOr(entry, default) == IF entry.present THEN entry.value ELSE default

\* the str objects the pipeline hands out as abstracts, of lengths around the
\* truncation length, and Missing for a paper without the key.  A str is
\* immutable: a paper dict holds a reference to it, here its place in the
\* pool.
AbstractPool ==
    << Some(Text(TruncLen + 5)), Missing, Some(Text(2)), Some(Text(TruncLen)),
       Some(Text(0)), Some(Text(TruncLen + 1)), Some(Text(TruncLen - 1)) >>

PaperOf(i) ==
    [ rank |-> i,
      title |-> <<116, i>>,
      abstract |-> ((i - 1) % Len(AbstractPool)) + 1,
      summary |-> Absent ]

ResultSetOf(n) ==
    [ query_timestamp |-> 7,
      keywords |-> <<107, n>>,
      top_5_papers |-> [i \in 1..n |-> PaperOf(i)] ]

ResultSets == {ResultSetOf(n) : n \in PaperCounts}

\* `not results`, `not summary`
Truthy(x) == x \notin {None, EmptyDict}

VARIABLES
    orchestrators,  \* mode -> handle or None
    handles,        \* mode -> number of MockPipelineOrchestrator(mode) built
    sessions,       \* session id -> identity of the stored ResultSet
    heap,           \* identity -> ResultSet object
    now,            \* datetime.now(), in seconds
    req,            \* the handler that is running: its position and locals
    requests,       \* number of requests received so far
    writes,         \* number of times paper['summary'] = summary ran so far
    last            \* the response sent last

vars == <<orchestrators, handles, sessions, heap, now, req, requests, writes, last>>

\* the session ids a client sends: every id the store holds, and one it does
\* not hold
SessionIds == DOMAIN sessions \cup {NoSuchSession}

\* the locals of a handler: request.*, orchestrator, results (the identity of
\* the object) and paper (its 0-based position in results['top_5_papers'])
Idle == [pc |-> "idle", mode |-> None, abstract |-> 0, session_id |-> NoSuchSession,
         paper_index |-> 0, orchestrator |-> NoHandle, results |-> 0, paper |-> 0]

\* the body of a response that returns no stored ResultSet
NoResults == [query_timestamp |-> 0, keywords |-> << >>, top_5_papers |-> << >>]

\* a response: the status and detail of an HTTPException, or 200 and the
\* fields of the returned dict (those of the other handler stay empty)
NoResponse == [kind |-> "none", status |-> 0, detail |-> None, session_id |-> NoSuchSession,
               top_5_papers |-> << >>, rank |-> 0, summary |-> None, results |-> NoResults]

Init ==
    /\ orchestrators = [m \in ValidModes |-> NoHandle]
    /\ handles = [m \in ValidModes |-> 0]
    /\ sessions = [s \in {} |-> 0]
    /\ heap = << >>
    /\ now = 0
    /\ req = Idle
    /\ requests = 0
    /\ writes = 0
    /\ last = NoResponse

\* ---------------------------------------------------------------- registry
\* orchestrators[mode] of a mode that is not a key raises KeyError
GetOrchestratorRaises(mode) == mode \notin DOMAIN orchestrators

\* MockPipelineOrchestrator(mode=mode): a new object each time it is called
NewHandle(mode) == <<mode, handles[mode] + 1>>

\* (faulty variant of GetOrchestratorBuilds: the stored handle is not looked at)
GetOrchestratorBuildsAlways(mode) == TRUE

\* if orchestrators[mode] is None
GetOrchestratorBuilds(mode) == orchestrators[mode] = NoHandle

\* the registry after get_orchestrator(mode)
OrchestratorsAfterGet(mode) ==
    IF GetOrchestratorBuilds(mode)
    THEN [orchestrators EXCEPT ![mode] = NewHandle(mode)]
    ELSE orchestrators

HandlesAfterGet(mode) ==
    IF GetOrchestratorBuilds(mode)
    THEN [handles EXCEPT ![mode] = @ + 1]
    ELSE handles

\* return orchestrators[mode]
GetOrchestrator(mode) == OrchestratorsAfterGet(mode)[mode]

\* ---------------------------------------------------------------- responses
StatusOf(detail) ==
    CASE detail \in {"abstract_too_short", "invalid_mode", "invalid_paper_index"} -> 400
      [] detail \in {"session_not_found", "paper_not_found"} -> 404
      [] OTHER -> 500

HttpError(kind, detail) ==
    [NoResponse EXCEPT !.kind = kind, !.status = StatusOf(detail), !.detail = detail]

\* s[:n]
Slice(s, n) == SubSeq(s, 1, Min(n, Len(s)))

\* (faulty variant of TruncatedAbstract: the ellipsis only where text was cut off)
TruncatedAbstractWhenCut(paper) ==
    IF Len(GetOr(AbstractPool[paper.abstract], << >>)) > TruncLen
    THEN Slice(GetOr(AbstractPool[paper.abstract], << >>), TruncLen) \o Ellipsis
    ELSE GetOr(AbstractPool[paper.abstract], << >>)

\* paper.get('abstract', '')[:300] + "..."
TruncatedAbstract(paper) ==
    Slice(GetOr(AbstractPool[paper.abstract], << >>), TruncLen) \o Ellipsis

FormatPaper(paper) ==
    [rank |-> paper.rank, title |-> paper.title, abstract |-> TruncatedAbstract(paper)]

\* for paper in results.get('top_5_papers', [])[:5]: response['top_5_papers'].append(...)
FormatPapers(papers) ==
    [i \in 1..Len(Slice(papers, TopN)) |-> FormatPaper(Slice(papers, TopN)[i])]

SearchResponse(sid, results) ==
    [NoResponse EXCEPT !.kind = "search", !.status = 200, !.session_id = sid,
                       !.top_5_papers = FormatPapers(results.top_5_papers)]

SummaryResponse(paper, summary) ==
    [NoResponse EXCEPT !.kind = "summary", !.status = 200,
                       !.rank = paper.rank, !.summary = summary]

\* the event loop takes the next request: no handler is running
Receives ==
    /\ req.pc = "idle"
    /\ requests < MaxRequests
    /\ requests' = requests + 1

\* ------------------------------------------------------------ search_papers
\* (faulty variants of SearchValidation: the mode checked first; the mode not checked)
SearchValidationModeFirst(mode, abstract) ==
    IF mode \notin ValidModes THEN "invalid_mode"
    ELSE IF abstract < MinAbstractLen THEN "abstract_too_short"
    ELSE "ok"

SearchValidationNoMode(mode, abstract) ==
    IF abstract < MinAbstractLen THEN "abstract_too_short" ELSE "ok"

\* the checks of search_papers in their order: the detail of the first that
\* fails
SearchValidation(mode, abstract) ==
    IF abstract < MinAbstractLen THEN "abstract_too_short"
    ELSE IF mode \notin ValidModes THEN "invalid_mode"
    ELSE "ok"

\* (faulty variant of SearchBegin: the handle is fetched before the length of
\* the abstract is checked)
SearchBeginGetsFirst(mode, abstract) ==
    /\ Receives
    /\ IF mode \notin ValidModes
       THEN /\ last' = HttpError("search", SearchValidation(mode, abstract))
            /\ UNCHANGED <<orchestrators, handles, req>>
       ELSE /\ orchestrators' = OrchestratorsAfterGet(mode)
            /\ handles' = HandlesAfterGet(mode)
            /\ IF abstract < MinAbstractLen
               THEN /\ last' = HttpError("search", "abstract_too_short")
                    /\ UNCHANGED req
               ELSE /\ req' = [Idle EXCEPT !.pc = "run_pipeline",
                                   !.mode = mode, !.abstract = abstract,
                                   !.orchestrator = GetOrchestrator(mode)]
                    /\ UNCHANGED last
    /\ UNCHANGED <<sessions, heap, now, writes>>

\* POST /api/search up to the call of run_pipeline
SearchBegin(mode, abstract) ==
    /\ Receives
    /\ IF SearchValidation(mode, abstract) # "ok"
       THEN /\ last' = HttpError("search", SearchValidation(mode, abstract))
            /\ UNCHANGED <<orchestrators, handles, req>>
       ELSE IF GetOrchestratorRaises(mode)
       THEN /\ last' = HttpError("search", "exception")
            /\ UNCHANGED <<orchestrators, handles, req>>
       ELSE /\ orchestrators' = OrchestratorsAfterGet(mode)
            /\ handles' = HandlesAfterGet(mode)
            /\ req' = [Idle EXCEPT !.pc = "run_pipeline",
                           !.mode = mode, !.abstract = abstract,
                           !.orchestrator = GetOrchestrator(mode)]
            /\ UNCHANGED last
    /\ UNCHANGED <<sessions, heap, now, writes>>

\* sessions[sid] = the object oid
Store(sid, oid) ==
    [s \in DOMAIN sessions \cup {sid} |-> IF s = sid THEN oid ELSE sessions[s]]

\* POST /api/search from the return of run_pipeline on, when it returned a
\* ResultSet: a new object, stored under the session id of this second
SearchReturn(results) ==
    LET oid == Len(heap) + 1
        sid == SessionId(req.mode, now)
    IN
    /\ req.pc = "run_pipeline"
    /\ req' = Idle
    /\ heap' = Append(heap, results)
    /\ sessions' = Store(sid, oid)
    /\ last' = SearchResponse(sid, results)
    /\ UNCHANGED <<orchestrators, handles, now, requests, writes>>

\* (faulty variant of SearchFails: the result stored before it is looked at)
SearchFailsAfterStore(outcome) ==
    /\ req.pc = "run_pipeline"
    /\ req' = Idle
    /\ heap' = Append(heap, NoResults)
    /\ sessions' = Store(SessionId(req.mode, now), Len(heap) + 1)
    /\ last' = IF outcome = Raise
               THEN HttpError("search", "exception")
               ELSE HttpError("search", "search_failed")
    /\ UNCHANGED <<orchestrators, handles, now, requests, writes>>

\* POST /api/search from run_pipeline on, when it returned None or {} (`not
\* results`) or raised (`except Exception`)
SearchFails(outcome) ==
    /\ req.pc = "run_pipeline"
    /\ req' = Idle
    /\ last' = IF outcome = Raise
               THEN HttpError("search", "exception")
               ELSE HttpError("search", "search_failed")
    /\ UNCHANGED <<orchestrators, handles, sessions, heap, now, requests, writes>>

\* --------------------------------------------------------- generate_summary
\* (faulty variants of SummaryValidation: the index checked before the session; the
\* index checked against the length of the list alone)
SummaryValidationIndexFirst(session_id, paper_index) ==
    IF paper_index < 1 \/ paper_index > MaxPaperIndex THEN "invalid_paper_index"
    ELSE IF session_id \notin DOMAIN sessions THEN "session_not_found"
    ELSE IF paper_index > Len(heap[sessions[session_id]].top_5_papers) THEN "paper_not_found"
    ELSE "ok"

SummaryValidationByLength(session_id, paper_index) ==
    IF session_id \notin DOMAIN sessions THEN "session_not_found"
    ELSE IF paper_index < 1 THEN "invalid_paper_index"
    ELSE IF paper_index > Len(heap[sessions[session_id]].top_5_papers) THEN "paper_not_found"
    ELSE "ok"

\* the checks of generate_summary in their order
SummaryValidation(session_id, paper_index) ==
    IF session_id \notin DOMAIN sessions THEN "session_not_found"
    ELSE IF paper_index < 1 \/ paper_index > MaxPaperIndex THEN "invalid_paper_index"
    ELSE IF paper_index > Len(heap[sessions[session_id]].top_5_papers) THEN "paper_not_found"
    ELSE "ok"

\* (faulty variant of PaperPosition: the 1-based index used as it is)
PaperPositionOneBased(paper_index) == paper_index

\* papers[request.paper_index - 1]: the 0-based position of the paper
PaperPosition(paper_index) == paper_index - 1

\* (faulty variant of SummaryBegin: the summary field of the paper is reset
\* before generate_summary is called)
SummaryBeginResetsSummary(mode, paper_index, session_id) ==
    /\ Receives
    /\ IF SummaryValidation(session_id, paper_index) # "ok"
       THEN /\ last' = HttpError("summary", SummaryValidation(session_id, paper_index))
            /\ UNCHANGED <<orchestrators, handles, req, heap>>
       ELSE IF GetOrchestratorRaises(mode)
       THEN /\ last' = HttpError("summary", "exception")
            /\ UNCHANGED <<orchestrators, handles, req, heap>>
       ELSE /\ orchestrators' = OrchestratorsAfterGet(mode)
            /\ handles' = HandlesAfterGet(mode)
            /\ req' = [Idle EXCEPT !.pc = "generate_summary",
                           !.mode = mode, !.paper_index = paper_index,
                           !.session_id = session_id,
                           !.orchestrator = GetOrchestrator(mode),
                           !.results = sessions[session_id],
                           !.paper = PaperPosition(paper_index)]
            /\ heap' = [heap EXCEPT ![sessions[session_id]].top_5_papers[paper_index].summary = None]
            /\ UNCHANGED last
    /\ UNCHANGED <<sessions, now, writes>>

\* (faulty variant of SummaryBegin: the handle is the one of the mode the
\* session id starts with)
SummaryBeginSessionMode(mode, paper_index, session_id) ==
    /\ Receives
    /\ IF SummaryValidation(session_id, paper_index) # "ok"
       THEN /\ last' = HttpError("summary", SummaryValidation(session_id, paper_index))
            /\ UNCHANGED <<orchestrators, handles, req>>
       ELSE /\ orchestrators' = OrchestratorsAfterGet(session_id[1])
            /\ handles' = HandlesAfterGet(session_id[1])
            /\ req' = [Idle EXCEPT !.pc = "generate_summary",
                           !.mode = mode, !.paper_index = paper_index,
                           !.session_id = session_id,
                           !.orchestrator = GetOrchestrator(session_id[1]),
                           !.results = sessions[session_id],
                           !.paper = PaperPosition(paper_index)]
            /\ UNCHANGED last
    /\ UNCHANGED <<sessions, heap, now, writes>>

\* POST /api/summary up to the call of generate_summary
SummaryBegin(mode, paper_index, session_id) ==
    /\ Receives
    /\ IF SummaryValidation(session_id, paper_index) # "ok"
       THEN /\ last' = HttpError("summary", SummaryValidation(session_id, paper_index))
            /\ UNCHANGED <<orchestrators, handles, req>>
       ELSE IF GetOrchestratorRaises(mode)
       THEN /\ last' = HttpError("summary", "exception")
            /\ UNCHANGED <<orchestrators, handles, req>>
       ELSE /\ orchestrators' = OrchestratorsAfterGet(mode)
            /\ handles' = HandlesAfterGet(mode)
            /\ req' = [Idle EXCEPT !.pc = "generate_summary",
                           !.mode = mode, !.paper_index = paper_index,
                           !.session_id = session_id,
                           !.orchestrator = GetOrchestrator(mode),
                           !.results = sessions[session_id],
                           !.paper = PaperPosition(paper_index)]
            /\ UNCHANGED last
    /\ UNCHANGED <<sessions, heap, now, writes>>

\* (faulty variant of SetSummary: a summary that is there is kept)
SetSummaryOnce(oid, position, summary) ==
    IF heap[oid].top_5_papers[position + 1].summary = Absent
    THEN [heap EXCEPT ![oid].top_5_papers[position + 1].summary = summary]
    ELSE heap

\* (faulty variant of SetSummary: the handler writes back the papers as they
\* were without any summary, with its own summary alone)
SetSummaryAlone(oid, position, summary) ==
    [heap EXCEPT ![oid].top_5_papers =
        [i \in DOMAIN @ |-> IF i = position + 1
                            THEN [@[i] EXCEPT !.summary = summary]
                            ELSE [@[i] EXCEPT !.summary = Absent]]]

\* (faulty variant of SetSummary: the ResultSet is stamped when a summary is
\* written)
SetSummaryStamps(oid, position, summary) ==
    [heap EXCEPT ![oid].top_5_papers[position + 1].summary = summary,
                 ![oid].query_timestamp = @ + 1]

\* paper['summary'] = summary, on the paper object the handler holds
SetSummary(oid, position, summary) ==
    [heap EXCEPT ![oid].top_5_papers[position + 1].summary = summary]

\* POST /api/summary from the return of generate_summary on
SummaryReturn(summary) ==
    LET oid == req.results IN
    /\ req.pc = "generate_summary"
    /\ req' = Idle
    /\ IF summary = Raise
       THEN /\ last' = HttpError("summary", "exception")
            /\ UNCHANGED <<sessions, heap, writes>>
       ELSE IF ~Truthy(summary)
       THEN /\ last' = HttpError("summary", "summary_failed")
            /\ UNCHANGED <<sessions, heap, writes>>
       ELSE /\ writes' = writes + 1
            /\ heap' = SetSummary(oid, req.paper, summary)
            /\ sessions' = Store(req.session_id, oid)
            /\ last' = SummaryResponse(heap[oid].top_5_papers[req.paper + 1], summary)
    /\ UNCHANGED <<orchestrators, handles, now, requests>>

\* -------------------------------------------------------------- get_session
\* return sessions[session_id]: the stored object as it is when it is sent
SessionResponse(results) ==
    [NoResponse EXCEPT !.kind = "session", !.status = 200, !.results = results]

\* GET /api/session/{session_id}
GetSession(session_id) ==
    /\ Receives
    /\ last' = IF session_id \notin DOMAIN sessions
               THEN HttpError("session", "session_not_found")
               ELSE SessionResponse(heap[sessions[session_id]])
    /\ UNCHANGED <<orchestrators, handles, sessions, heap, now, req, writes>>

\* the wall clock reaches the next second
Tick ==
    /\ now < MaxTime
    /\ now' = now + 1
    /\ UNCHANGED <<orchestrators, handles, sessions, heap, req, requests, writes, last>>

Next ==
    \/ \E mode \in Modes, abstract \in AbstractLens : SearchBegin(mode, abstract)
    \/ \E results \in ResultSets : SearchReturn(results)
    \/ \E outcome \in {None, EmptyDict, Raise} : SearchFails(outcome)
    \/ \E mode \in Modes, paper_index \in PaperIndexes, session_id \in SessionIds :
          SummaryBegin(mode, paper_index, session_id)
    \/ \E summary \in SummaryValues \cup {None, EmptyDict, Raise} : SummaryReturn(summary)
    \/ \E session_id \in SessionIds : GetSession(session_id)
    \/ Tick

Spec == Init /\ [][Next]_vars

\* ------------------------------------------------------------------ claims
Rejected(kind, status, detail) ==
    /\ last'.kind = kind
    /\ last'.status = status
    /\ last'.detail = detail

StoreUnchanged == sessions' = sessions /\ heap' = heap

NotCalled == UNCHANGED <<orchestrators, handles, req>>

\* the mode of the search that created the session: what its id starts with
ModeOfSession(session_id) == session_id[1]

\* C1: a search request whose abstract has fewer than 50 characters is
\* rejected with abstract_too_short (400) whatever its mode, valid or not, and
\* leaves the session store as it was: no step that serves such a request
\* does anything else.
C1_AbstractTooShort ==
    \A abstract \in AbstractLens : abstract < MinAbstractLen =>
      \A mode \in Modes :
        ~ENABLED (/\ SearchBegin(mode, abstract)
                  /\ ~(/\ Rejected("search", 400, "abstract_too_short")
                       /\ StoreUnchanged
                       /\ NotCalled))

\* a short abstract was rejected while the store held a session
C1_Witness ==
    /\ last.kind = "search"
    /\ last.detail = "abstract_too_short"
    /\ DOMAIN sessions # {}

\* C2: a search request whose abstract has at least 50 characters and whose
\* mode is neither arxiv nor local is rejected with invalid_mode (400), and no
\* session is created.
C2_InvalidMode ==
    \A abstract \in AbstractLens, mode \in Modes :
      (abstract >= MinAbstractLen /\ mode \notin {"arxiv", "local"}) =>
        ~ENABLED (/\ SearchBegin(mode, abstract)
                  /\ ~(/\ Rejected("search", 400, "invalid_mode")
                       /\ StoreUnchanged
                       /\ NotCalled))

\* a mode was rejected while the store held a session
C2_Witness ==
    /\ last.kind = "search"
    /\ last.detail = "invalid_mode"
    /\ DOMAIN sessions # {}

\* C3: every successful search creates exactly one new session (the store
\* grows by one), whose paper list has at most 5 papers and at most as many
\* as the pipeline returned.
C3_OneNewSession ==
    [][\A results \in ResultSets :
          SearchReturn(results) =>
              /\ Cardinality(DOMAIN sessions') = Cardinality(DOMAIN sessions) + 1
              /\ Len(heap'[sessions'[last'.session_id]].top_5_papers) <= 5
              /\ Len(heap'[sessions'[last'.session_id]].top_5_papers)
                    <= Len(results.top_5_papers)]_vars

\* C4: a summary request whose session_id is not in the store yields
\* session_not_found (404) for every paper_index and every mode, without a
\* lookup in the registry, a collaborator call or a change to the store.
C4_SessionNotFound ==
    \A session_id \in SessionIds : session_id \notin DOMAIN sessions =>
      \A mode \in Modes, paper_index \in PaperIndexes :
        ~ENABLED (/\ SummaryBegin(mode, paper_index, session_id)
                  /\ ~(/\ Rejected("summary", 404, "session_not_found")
                       /\ StoreUnchanged
                       /\ NotCalled))

\* an unknown session id was rejected while the store held other sessions
C4_Witness ==
    /\ last.kind = "summary"
    /\ last.detail = "session_not_found"
    /\ DOMAIN sessions # {}

\* C5: for a summary request against an existing session, a paper_index
\* below 1 or above 5 yields invalid_paper_index (400) however many papers
\* the session holds, and the session is left unchanged.
C5_InvalidPaperIndex ==
    \A session_id \in SessionIds, paper_index \in PaperIndexes :
      (session_id \in DOMAIN sessions /\ (paper_index < 1 \/ paper_index > 5)) =>
        \A mode \in Modes :
          ~ENABLED (/\ SummaryBegin(mode, paper_index, session_id)
                    /\ ~(/\ Rejected("summary", 400, "invalid_paper_index")
                         /\ StoreUnchanged
                         /\ NotCalled))

\* an index was rejected when every session of the store held more than 5
\* papers
C5_Witness ==
    /\ last.kind = "summary"
    /\ last.detail = "invalid_paper_index"
    /\ DOMAIN sessions # {}
    /\ \A s \in DOMAIN sessions : Len(heap[sessions[s]].top_5_papers) > 5

\* what C6 says of the step that serves summarize(session_id, mode,
\* paper_index)
PaperFoundOrNot(mode, paper_index, session_id) ==
    IF paper_index > Len(heap[sessions[session_id]].top_5_papers)
    THEN /\ Rejected("summary", 404, "paper_not_found")
         /\ StoreUnchanged
         /\ NotCalled
    ELSE mode \in {"arxiv", "local"} =>
         /\ req'.pc = "generate_summary"
         /\ req'.results = sessions[session_id]
         /\ req'.paper = paper_index - 1
         /\ heap[req'.results].top_5_papers[req'.paper + 1].rank = paper_index

\* C6: for a summary request against an existing session with
\* 1 <= paper_index <= 5, an index above the number of papers of the session
\* yields paper_not_found (404); otherwise the paper selected is the one at
\* the 0-based position paper_index - 1 of the session's list, which is the
\* paper of rank paper_index.
C6_PaperSelected ==
    \A session_id \in SessionIds, paper_index \in PaperIndexes :
      (session_id \in DOMAIN sessions /\ 1 <= paper_index /\ paper_index <= 5) =>
        \A mode \in Modes :
          ~ENABLED (/\ SummaryBegin(mode, paper_index, session_id)
                    /\ ~PaperFoundOrNot(mode, paper_index, session_id))

\* an index above the number of papers of a session was rejected, and the
\* request that followed holds the first of the two papers of its session
C6_Witness ==
    /\ last.kind = "summary"
    /\ last.detail = "paper_not_found"
    /\ req.pc = "generate_summary"
    /\ req.paper_index = 1
    /\ Len(heap[req.results].top_5_papers) = 2
    /\ heap[req.results].top_5_papers[req.paper + 1].rank = 1

Summarized(oid) == {i \in DOMAIN heap[oid].top_5_papers :
                      heap[oid].top_5_papers[i].summary # Absent}

\* C7: a summary returned for a paper that holds a summary already replaces
\* it: the session then holds that paper with the summary of this call, every
\* other field of the paper and every other paper, object and session as
\* before; if the summary is the one already stored, the store is as before.
C7_Overwrite ==
    [][\A summary \in SummaryValues :
          LET oid == req.results
              k == req.paper_index
          IN (req.pc = "generate_summary" /\ k \in Summarized(oid)
                /\ SummaryReturn(summary)) =>
              /\ sessions'[req.session_id] = oid
              /\ heap'[oid].top_5_papers[k].summary = summary
              /\ heap' = [heap EXCEPT ![oid].top_5_papers[k].summary = summary]
              /\ \A s \in DOMAIN sessions \ {req.session_id} :
                    s \in DOMAIN sessions' /\ sessions'[s] = sessions[s]
              /\ DOMAIN sessions' = DOMAIN sessions
              /\ (heap[oid].top_5_papers[k].summary = summary
                    /\ sessions[req.session_id] = oid) => StoreUnchanged]_vars

\* two summaries were written, the second over the first: one paper of a
\* session of several papers holds the summary of the response
C7_Witness ==
    /\ last.kind = "summary"
    /\ last.status = 200
    /\ writes = 2
    /\ Len(heap) = 1
    /\ Len(heap[1].top_5_papers) > 1
    /\ Summarized(1) = {last.rank}
    /\ heap[1].top_5_papers[last.rank].summary = last.summary

SourceAbstract(paper) ==
    IF AbstractPool[paper.abstract].present THEN AbstractPool[paper.abstract].value ELSE << >>

\* C8: every paper of a search response carries the first 300 characters of
\* its source abstract followed by "...", also when the source is shorter
\* than 300 characters, empty or missing.
C8_Truncation ==
    (last.kind = "search" /\ last.status = 200) =>
        \A i \in DOMAIN last.top_5_papers :
            LET source == SourceAbstract(heap[sessions[last.session_id]].top_5_papers[i])
                shown == last.top_5_papers[i].abstract
                n == IF Len(source) <= 300 THEN Len(source) ELSE 300
            IN /\ Len(shown) = n + 3
               /\ \A j \in 1..n : shown[j] = source[j]
               /\ \A j \in (n + 1)..(n + 3) : shown[j] = 46

\* a response of 5 papers, with a source abstract longer than 300 characters,
\* a shorter one, an empty one and a missing one
C8_Witness ==
    /\ last.kind = "search"
    /\ last.status = 200
    /\ Len(last.top_5_papers) = 5
    /\ LET papers == heap[sessions[last.session_id]].top_5_papers IN
         /\ \E i \in 1..5 : Len(SourceAbstract(papers[i])) > 300
         /\ \E i \in 1..5 : Len(SourceAbstract(papers[i])) \in 1..299
         /\ \E i \in 1..5 : AbstractPool[papers[i].abstract] = Some(<< >>)
         /\ \E i \in 1..5 : AbstractPool[papers[i].abstract] = Missing

\* C9: at most one handle is ever built per mode, an entry of the registry
\* that is set is never replaced, and every handler holds the handle the
\* registry holds for its mode.
C9_OneHandlePerMode ==
    [][/\ \A m \in ValidModes : handles'[m] <= 1
       /\ \A m \in ValidModes :
             orchestrators[m] # NoHandle => orchestrators'[m] = orchestrators[m]
       /\ req'.pc \in {"run_pipeline", "generate_summary"} =>
             /\ req'.orchestrator # NoHandle
             /\ req'.orchestrator = orchestrators'[req'.mode]]_vars

\* a search of one mode has built the handle of that mode and completed; a
\* summarize of the same mode waits in generate_summary and holds that
\* handle, the only one built
C9_Witness ==
    /\ req.pc = "generate_summary"
    /\ ModeOfSession(req.session_id) = req.mode
    /\ req.orchestrator = <<req.mode, 1>>
    /\ req.orchestrator = orchestrators[req.mode]
    /\ handles[req.mode] = 1
    /\ \A m \in ValidModes \ {req.mode} : handles[m] = 0

\* C10: a session id, once issued, stays in the store and keeps the
\* ResultSet of the search that issued it, whatever request is served.
C10_NeverReassigned ==
    [][\A s \in DOMAIN sessions :
          s \in DOMAIN sessions' /\ sessions'[s] = sessions[s]]_vars

\* the step is the write of a summarize of the paper of rank k of session s
SummarizeWrites(s, k) ==
    /\ req.pc = "generate_summary"
    /\ req.session_id = s
    /\ req.paper_index = k
    /\ req'.pc = "idle"
    /\ writes' = writes + 1

\* C11: after a successful summarize(session_id, mode, k) the session holds
\* the paper of rank k with the summary of that call; a summary a session
\* holds stays what it is for every later read, whatever is served, until a
\* summarize of that paper of that session writes again; and get_session
\* returns the stored ResultSet of a known id, session_not_found (404) for
\* an unknown one.
C11_ReadsSeeSummary ==
    [][/\ \A summary \in SummaryValues :
             (req.pc = "generate_summary" /\ SummaryReturn(summary)) =>
                 heap'[sessions'[req.session_id]].top_5_papers[req.paper_index].summary
                     = summary
       /\ \A s \in DOMAIN sessions : \A k \in DOMAIN heap[sessions[s]].top_5_papers :
             (heap[sessions[s]].top_5_papers[k].summary # Absent /\ ~SummarizeWrites(s, k)) =>
                 /\ s \in DOMAIN sessions'
                 /\ k \in DOMAIN heap'[sessions'[s]].top_5_papers
                 /\ heap'[sessions'[s]].top_5_papers[k].summary
                       = heap[sessions[s]].top_5_papers[k].summary
       /\ \A session_id \in SessionIds :
             GetSession(session_id) =>
                 IF session_id \in DOMAIN sessions
                 THEN /\ last'.kind = "session"
                      /\ last'.status = 200
                      /\ last'.results = heap[sessions[session_id]]
                 ELSE Rejected("session", 404, "session_not_found")]_vars

\* the step sends the response of a request: of one answered without a
\* collaborator call, or of one whose collaborator call is over
Responds ==
    \/ requests' # requests /\ req' = req
    \/ req.pc # "idle" /\ req'.pc = "idle"

\* C12: a step that answers a request with an error (400, 404 or 500: failed
\* validation, session or paper not found, search_failed, summary_failed, a
\* raising collaborator) leaves sessions and every stored object as they
\* were; and so does the step that takes a request up to its collaborator
\* call, so that such a request has changed nothing when its error is sent.
C12_ErrorsLeaveStore ==
    [][/\ (Responds /\ last'.status # 200) => (StoreUnchanged /\ writes' = writes)
       /\ requests' # requests => (StoreUnchanged /\ writes' = writes)]_vars

\* a summary call came back without a summary while the store held a
\* session: summary_failed was sent and no paper of the session has a summary
C12_Witness ==
    /\ last.kind = "summary"
    /\ last.detail = "summary_failed"
    /\ last.status = 500
    /\ Len(heap) = 1
    /\ DOMAIN sessions # {}
    /\ Summarized(1) = {}

\* the step is the return of a collaborator call with a result that is
\* there, answered with 200
ReturnsResult ==
    /\ req.pc \in {"run_pipeline", "generate_summary"}
    /\ req'.pc = "idle"
    /\ last'.status = 200

\* C13: a request changes the store in one step only, the one that follows
\* the return of its collaborator call with a result that is there; the step
\* that takes it up to the call changes nothing.  A request whose call never
\* returns has therefore changed nothing: no session for a search, no part
\* of a summary for a summarize.
C13_WritesAfterReturn ==
    [][/\ ~StoreUnchanged => ReturnsResult
       /\ writes' # writes => ReturnsResult
       /\ (req.pc = "idle" /\ req'.pc # "idle") =>
             (StoreUnchanged /\ writes' = writes)]_vars

\* after one search, a second search waits in run_pipeline while the clock
\* has reached the last second: the store holds the one session of the
\* first, without any summary
C13_Witness ==
    /\ req.pc = "run_pipeline"
    /\ now = MaxTime
    /\ requests = 2
    /\ Len(heap) = 1
    /\ Cardinality(DOMAIN sessions) = 1
    /\ Summarized(1) = {}
    /\ writes = 0

\* the step calls get_orchestrator(mode): a handler does so once its checks
\* have passed (search_papers line 219, generate_summary line 305)
CallsGetOrchestrator(mode) ==
    \/ \E abstract \in AbstractLens :
          /\ SearchBegin(mode, abstract)
          /\ SearchValidation(mode, abstract) = "ok"
    \/ \E paper_index \in PaperIndexes, session_id \in SessionIds :
          /\ SummaryBegin(mode, paper_index, session_id)
          /\ SummaryValidation(session_id, paper_index) = "ok"

\* C14: get_orchestrator is only ever called with the mode arxiv or local:
\* no search and no summarize with another mode gets as far as the registry.
C14_RegistryGetsValidModes ==
    [][\A mode \in Modes :
          CallsGetOrchestrator(mode) => mode \in {"arxiv", "local"}]_vars

\* C15 speaks of the record under a session id changing while a summarize
\* waits in generate_summary.  The handlers have no await and call their
\* collaborators synchronously, so no behaviour of Spec has a store that
\* changes between SummaryBegin and SummaryReturn: the case is not reached,
\* and no formula is given for it.

\* C16: summarize requests of one session are served one after the other,
\* each on the session's ResultSet itself.  When one of them gets its
\* summary, the session is that ResultSet with all its papers, the paper of
\* this request holds this summary and every other paper keeps the summary
\* it has, the one an earlier request wrote included.  Two writes for one
\* paper leave the later one.
C16_NoLostUpdate ==
    [][\A summary \in SummaryValues :
          (req.pc = "generate_summary" /\ SummaryReturn(summary)) =>
              LET papers == heap[req.results].top_5_papers
                  after == heap'[sessions'[req.session_id]].top_5_papers
              IN /\ Len(after) = Len(papers)
                 /\ \A i \in DOMAIN papers :
                       /\ [after[i] EXCEPT !.summary = Absent]
                             = [papers[i] EXCEPT !.summary = Absent]
                       /\ after[i].summary = IF i = req.paper_index
                                             THEN summary
                                             ELSE papers[i].summary]_vars

\* two summarize requests of the one session, for different papers, have
\* both written: the session holds the summary of the last response and
\* another summary for another paper
C16_Witness ==
    /\ requests = 3
    /\ writes = 2
    /\ Len(heap) = 1
    /\ req.pc = "idle"
    /\ last.kind = "summary"
    /\ last.status = 200
    /\ Cardinality(Summarized(1)) = 2
    /\ heap[1].top_5_papers[last.rank].summary = last.summary
    /\ \E i \in Summarized(1) \ {last.rank} :
          heap[1].top_5_papers[i].summary \in SummaryValues

\* C17: a successful summarize(session_id, mode, k) leaves the store as it
\* was except for the summary of the paper of rank k of that session: the
\* session is what it was with that one field set, the ids of the store and
\* every other session are as before; and a stored ResultSet is changed by
\* no step other than such a write of a summarize.
C17_SummarizeFrame ==
    [][/\ \A summary \in SummaryValues :
             (req.pc = "generate_summary" /\ SummaryReturn(summary)) =>
                 /\ DOMAIN sessions' = DOMAIN sessions
                 /\ heap'[sessions'[req.session_id]]
                       = [heap[sessions[req.session_id]]
                            EXCEPT !.top_5_papers[req.paper_index].summary = summary]
                 /\ \A s \in DOMAIN sessions \ {req.session_id} :
                       heap'[sessions'[s]] = heap[sessions[s]]
       /\ \A oid \in DOMAIN heap :
             heap'[oid] # heap[oid] =>
                 /\ req.pc = "generate_summary"
                 /\ req.results = oid
                 /\ req'.pc = "idle"
                 /\ last'.kind = "summary"
                 /\ last'.status = 200]_vars

\* a summarize was served in a store of two sessions: one of them holds the
\* summary of the response and nothing else new, the other is the
\* ResultSet its search stored
C17_Witness ==
    /\ requests = 3
    /\ writes = 1
    /\ last.kind = "summary"
    /\ last.status = 200
    /\ Len(heap) = 2
    /\ Cardinality(DOMAIN sessions) = 2
    /\ \E s \in DOMAIN sessions, n \in PaperCounts :
          /\ heap[sessions[s]]
                = [ResultSetOf(n) EXCEPT !.top_5_papers[last.rank].summary = last.summary]
          /\ \A o \in DOMAIN sessions \ {s} : heap[sessions[o]] \in ResultSets

\* C18: a summarize with a valid mode m2 on a session that a search of the
\* other valid mode m1 created calls generate_summary on the handle of m2,
\* which is built then if the registry has none and is the stored one
\* otherwise, the entry of m1 staying as it is; and its summary is written
\* into the session of m1 it names.
C18_HandleOfRequestMode ==
    [][/\ \A mode \in {"arxiv", "local"}, paper_index \in PaperIndexes,
             session_id \in DOMAIN sessions :
             (/\ ModeOfSession(session_id) \in {"arxiv", "local"} \ {mode}
              /\ SummaryValidation(session_id, paper_index) = "ok"
              /\ SummaryBegin(mode, paper_index, session_id)) =>
                 /\ req'.pc = "generate_summary"
                 /\ req'.orchestrator = orchestrators'[mode]
                 /\ req'.orchestrator[1] = mode
                 /\ IF orchestrators[mode] = NoHandle
                    THEN handles'[mode] = handles[mode] + 1
                    ELSE /\ handles'[mode] = handles[mode]
                         /\ orchestrators'[mode] = orchestrators[mode]
                 /\ orchestrators'[ModeOfSession(session_id)]
                       = orchestrators[ModeOfSession(session_id)]
                 /\ handles'[ModeOfSession(session_id)] = handles[ModeOfSession(session_id)]
       /\ \A summary \in SummaryValues :
             (/\ req.pc = "generate_summary"
              /\ ModeOfSession(req.session_id) # req.mode
              /\ SummaryReturn(summary)) =>
                 /\ req.orchestrator[1] = req.mode
                 /\ ModeOfSession(req.session_id) \in {"arxiv", "local"}
                 /\ heap'[sessions'[req.session_id]].top_5_papers[req.paper_index].summary
                       = summary]_vars

\* one search and one summarize were served: the only session is one of an
\* arxiv search, the summarize built the handle of local, which no search
\* had asked for, and its summary is in the arxiv session
C18_Witness ==
    /\ requests = 2
    /\ writes = 1
    /\ DOMAIN sessions # {}
    /\ \A s \in DOMAIN sessions : ModeOfSession(s) = "arxiv"
    /\ orchestrators["local"] = <<"local", 1>>
    /\ handles["local"] = 1
    /\ last.kind = "summary"
    /\ last.status = 200
    /\ \E s \in DOMAIN sessions :
          heap[sessions[s]].top_5_papers[last.rank].summary = last.summary

\* C19: the id a successful search returns is made of its mode and of the
\* second in which run_pipeline returned, and of nothing else: ids are equal
\* exactly when mode and second are.  A search that completes with the mode
\* and in the second of an earlier one is answered 200 like any other and
\* takes over its id: the store has the same ids as before, the id is bound
\* to the new ResultSet, and the ResultSet it was bound to is bound to no id
\* any more.  Otherwise the id is new and every session stays as it was.
C19_IdCollision ==
    [][/\ \A m1 \in ValidModes, m2 \in ValidModes, t1 \in 0..MaxTime, t2 \in 0..MaxTime :
             (SessionId(m1, t1) = SessionId(m2, t2)) <=> (m1 = m2 /\ t1 = t2)
       /\ \A results \in ResultSets :
             (req.pc = "run_pipeline" /\ SearchReturn(results)) =>
                 LET sid == last'.session_id IN
                 /\ last'.kind = "search"
                 /\ last'.status = 200
                 /\ sid = SessionId(req.mode, now)
                 /\ ModeOfSession(sid) = req.mode
                 /\ sid[2] = now
                 /\ sessions'[sid] \notin DOMAIN heap
                 /\ heap'[sessions'[sid]] = results
                 /\ IF \E s \in DOMAIN sessions : ModeOfSession(s) = req.mode /\ s[2] = now
                    THEN /\ sid \in DOMAIN sessions
                         /\ DOMAIN sessions' = DOMAIN sessions
                         /\ \A s \in DOMAIN sessions' : sessions'[s] # sessions[sid]
                    ELSE /\ sid \notin DOMAIN sessions
                         /\ DOMAIN sessions' = DOMAIN sessions \cup {sid}
                 /\ \A s \in DOMAIN sessions \ {sid} : sessions'[s] = sessions[s]]_vars

\* three searches have completed: two of one mode within one second, whose
\* id holds the ResultSet of the later one while the earlier one is bound to
\* no id, and one of another mode or second under an id of its own
C19_Witness ==
    /\ Len(heap) = 3
    /\ Cardinality(DOMAIN sessions) = 2
    /\ last.kind = "search"
    /\ last.status = 200
    /\ \E oid \in DOMAIN heap : \A s \in DOMAIN sessions : sessions[s] # oid
    /\ \E s \in DOMAIN sessions : sessions[s] = 3

\* C20: a request answered with 400 (abstract_too_short, invalid_mode or
\* invalid_paper_index, and 400 is sent for nothing else) is answered in the
\* step that receives it: it never waited for run_pipeline or
\* generate_summary, the registry holds the handles it held and none was
\* built, and the store is as it was.
C20_RejectedBeforeSideEffects ==
    [][(Responds /\ last'.status = 400) =>
          /\ last'.detail \in {"abstract_too_short", "invalid_mode", "invalid_paper_index"}
          /\ requests' = requests + 1
          /\ UNCHANGED <<orchestrators, handles, req>>
          /\ StoreUnchanged
          /\ writes' = writes]_vars

\* the second request, a summarize of the session of the first, was rejected
\* for its index: the registry holds the one handle the search built
C20_Witness ==
    /\ requests = 2
    /\ Len(heap) = 1
    /\ last.kind = "summary"
    /\ last.status = 400
    /\ last.detail = "invalid_paper_index"
    /\ req.pc = "idle"
    /\ \E m \in ValidModes :
          /\ handles[m] = 1
          /\ \A o \in ValidModes \ {m} : handles[o] = 0 /\ orchestrators[o] = NoHandle
====
